---- MODULE Spec2Model ----
(***************************************************************************)
(* The VT100 terminal interpreter of src/vt100.c: vt100_update() and the   *)
(* escape-sequence parser terminal_escape_sequences(), with the screen     *)
(* (vt100_t) they mutate.  One step of the model is one vt100_update()     *)
(* call on one input byte.                                                 *)
(***************************************************************************)
EXTENDS Integers, Sequences, FiniteSets

(***************************************************************************)
(* Screen dimensions of the model (the program uses VGA_WIDTH x            *)
(* VGA_HEIGHT; the model keeps both as small bounds).                      *)
(***************************************************************************)
Width == 5
Height == 2
TextWidth == 2
TextHeight == 2
LineWidth == 4

(***************************************************************************)
(* The size a FIFO is created with (the program uses UART_FIFO_DEPTH and a *)
(* multiple of it), and the number of bytes a run of the model pushes.     *)
(***************************************************************************)
FifoSize == 3
MaxGlyphs == 2
MaxPops == 5
MaxPushes == 4

(***************************************************************************)
(* Byte values the code names or compares against.                         *)
(***************************************************************************)
BACKSPACE == 8
TAB == 9
LF == 10
CR == 13
ESCAPE == 27
SPACE == 32
DELETE == 127
CH_0 == 48
CH_SEMI == 59
CH_QUERY == 63
CH_A == 65
CH_B == 66
CH_C == 67
CH_D == 68
CH_E == 69
CH_F == 70
CH_G == 71
CH_H == 72
CH_J == 74
CH_LBRACKET == 91
CH_f == 102
CH_h == 104
CH_i == 105
CH_l == 108
CH_m == 109
CH_n == 110
CH_s == 115

BLACK == 0
WHITE == 7

(* terminal_state_t *)
TERMINAL_NORMAL_MODE == "TERMINAL_NORMAL_MODE"
TERMINAL_CSI == "TERMINAL_CSI"
TERMINAL_COMMAND == "TERMINAL_COMMAND"
TERMINAL_NUMBER_1 == "TERMINAL_NUMBER_1"
TERMINAL_NUMBER_2 == "TERMINAL_NUMBER_2"
TERMINAL_DECTCEM == "TERMINAL_DECTCEM"

(* the largest command_index at which NUMBER_1/NUMBER_2 still take a digit,
   and the same limit for DECTCEM *)
NUMBER_DIGIT_LIMIT_off_by_one == 3 + 1
NUMBER_DIGIT_LIMIT == 3
DECTCEM_DIGIT_LIMIT_off_by_one == 1 + 1
DECTCEM_DIGIT_LIMIT == 1
DECTCEM_PARAMETER == 25

VARIABLES
    cursor, cursor_saved, n1, n2, height, width, size, state, blinks,
    cursor_on, attribute, attributes, m, command_index,
    \* the last vt100_update call: its byte c, and what
    \* terminal_escape_sequences returned to it (0 when it was not called)
    c, ret,
    \* history of the screen since its last full clear: the glyphs the
    \* default case of vt100_update stored, and the 'm' commands that stored
    \* an attribute at the cursor
    written, marked,
    \* the vt100_update calls made since the last one that left the state
    \* TERMINAL_NORMAL_MODE
    unfinished,
    \* a second vt100_t that is fed the same bytes, one call behind or level
    twin,
    \* the bytes passed to vt100_update, in order
    fed,
    \* a fifo_t: head, tail, size and buffer
    head, tail, fifo_size, buffer,
    \* the last FIFO call: the function, what it returned and the byte that
    \* fifo_pop's data points to
    fifo_call, fifo_ret, data,
    \* the bytes fifo_push accepted and the bytes fifo_pop delivered, in order
    pushed, popped,
    \* a fifo_push call and a fifo_pop call in progress: where each is, and
    \* the byte fifo_push was called with
    producer_pc, producer_data, consumer_pc

screen == <<cursor, cursor_saved, cursor_on, attribute, attributes, m>>
geometry == <<height, width, size, blinks>>
vars == <<cursor, cursor_saved, n1, n2, height, width, size, state, blinks,
          cursor_on, attribute, attributes, m, command_index, c, ret,
          written, marked, unfinished, twin, fed, head, tail, fifo_size, buffer, fifo_call,
          fifo_ret, data, pushed, popped, producer_pc, producer_data,
          consumer_pc>>
threads == <<producer_pc, producer_data, consumer_pc>>
fifo == <<head, tail, fifo_size, buffer, fifo_call, fifo_ret, data, pushed,
          popped, producer_pc, producer_data, consumer_pc>>
terminal == <<cursor, cursor_saved, n1, n2, height, width, size, state, blinks,
              cursor_on, attribute, attributes, m, command_index, c, ret,
              written, marked, unfinished, twin, fed>>

MIN(X, Y) == IF X < Y THEN X ELSE Y
MAX(X, Y) == IF X > Y THEN X ELSE Y

isdigit(b) == b >= CH_0 /\ b <= CH_0 + 9

(* 2^32 reduced modulo d, computed without leaving 32-bit integers *)
Pow32Mod(d) == ((65536 % d) * (65536 % d)) % d

(* (unsigned)v % d for a C int v: a negative v converts to 2^32 + v *)
UnsignedMod(v, d) == IF v >= 0 THEN v % d ELSE (Pow32Mod(d) + (v % d)) % d

(* MIN((unsigned)v, hi) for a C int v and 0 <= hi: a negative v converts to a
   value above every hi *)
UnsignedMin(v, hi) == IF v < 0 THEN hi ELSE MIN(v, hi)

vt100_default_attribute ==
    [bold |-> 0, under_score |-> 0, blink |-> 0, reverse_video |-> 0,
     conceal |-> 0, foreground_color |-> WHITE, background_color |-> BLACK]

(* the cursor terminal_at_xy stores *)
terminal_at_xy(x, y, limit_not_wrap) ==
    IF limit_not_wrap
    THEN (UnsignedMin(y, height - 1) * width) + UnsignedMin(x, width - 1)
    ELSE (UnsignedMod(y, height) * width) + UnsignedMod(x, width)

terminal_x_current == cursor % width
terminal_y_current == cursor \div width

(* the relative move without MAX(..., 0): a negative coordinate reaches
   terminal_at_xy as a large unsigned value *)
terminal_at_xy_relative_unclamped(x, y, limit_not_wrap) ==
    terminal_at_xy(terminal_x_current + x, terminal_y_current + y,
                   limit_not_wrap)

terminal_at_xy_relative(x, y, limit_not_wrap) ==
    terminal_at_xy(MAX(terminal_x_current + x, 0),
                   MAX(terminal_y_current + y, 0), limit_not_wrap)

(* the colour ranges tested with > in place of >= *)
terminal_parse_attribute_range(a, v) ==
    CASE v = 0 -> vt100_default_attribute
      [] v = 1 -> [a EXCEPT !.bold = 1]
      [] v = 4 -> [a EXCEPT !.under_score = 1]
      [] v = 5 -> [a EXCEPT !.blink = 1]
      [] v = 7 -> [a EXCEPT !.reverse_video = 1]
      [] v = 8 -> [a EXCEPT !.conceal = 1]
      [] v > 30 /\ v <= 37 -> [a EXCEPT !.foreground_color = v - 30]
      [] v > 40 /\ v <= 47 -> [a EXCEPT !.background_color = v - 40]
      [] OTHER -> a

terminal_parse_attribute(a, v) ==
    CASE v = 0 -> vt100_default_attribute
      [] v = 1 -> [a EXCEPT !.bold = 1]
      [] v = 4 -> [a EXCEPT !.under_score = 1]
      [] v = 5 -> [a EXCEPT !.blink = 1]
      [] v = 7 -> [a EXCEPT !.reverse_video = 1]
      [] v = 8 -> [a EXCEPT !.conceal = 1]
      [] v >= 30 /\ v <= 37 -> [a EXCEPT !.foreground_color = v - 30]
      [] v >= 40 /\ v <= 47 -> [a EXCEPT !.background_color = v - 40]
      [] OTHER -> a

(* memset that stops one cell early *)
memset_space_short(mem, n) ==
    [i \in DOMAIN mem |-> IF i < n - 1 THEN SPACE ELSE mem[i]]

(* memset(t->m, ' ', n) *)
memset_space(mem, n) ==
    [i \in DOMAIN mem |-> IF i < n THEN SPACE ELSE mem[i]]

(* terminal_attribute_block_set with a loop that stops one cell early *)
terminal_attribute_block_set_short(attrs, n) ==
    [i \in DOMAIN attrs |->
        IF i < n - 1 THEN vt100_default_attribute ELSE attrs[i]]

(* terminal_attribute_block_set(t, n, &vt100_default_attribute) *)
terminal_attribute_block_set(attrs, n) ==
    [i \in DOMAIN attrs |-> IF i < n THEN vt100_default_attribute ELSE attrs[i]]

(* digit accumulation shared by NUMBER_1, NUMBER_2 and DECTCEM *)
accumulate(n, b) == (n * (IF command_index # 0 THEN 10 ELSE 0)) + (b - CH_0)

(* the parameters of the sequence before left as they are *)
terminal_default_command_sequence_kept == UNCHANGED <<n1, n2, command_index>>

terminal_default_command_sequence ==
    /\ n1' = 1
    /\ n2' = 1
    /\ command_index' = 0

(* success without the return to normal mode *)
success_keeps_state == state' = state /\ ret' = 0

(* The bytes fed are recorded by the specifications that start fed as the
   empty sequence; the others start it at Unfed, where it stays. *)
Unfed == <<0 - 1>>

(* vt100_update(t, b) is entered; width, height and size are never written,
   and no FIFO is touched *)
called(b) ==
    /\ c' = b
    /\ fed' = IF fed = Unfed THEN fed ELSE Append(fed, b)
    /\ UNCHANGED geometry
    /\ UNCHANGED fifo
    /\ UNCHANGED twin

(* the labels of terminal_escape_sequences *)
success == state' = TERMINAL_NORMAL_MODE /\ ret' = 0
fail == state' = TERMINAL_NORMAL_MODE /\ ret' = -1
pending(s) == state' = s /\ ret' = 0

parser_kept == UNCHANGED <<n1, n2, command_index>>

(* The history counts up to size, which is as far as a number of cells
   goes.  A specification that does not observe the history starts both
   counters at Unobserved, where they stay. *)
Unobserved == 0 - 1
count(k) == IF k = Unobserved THEN k ELSE MIN(k + 1, size)
reset(k) == IF k = Unobserved THEN k ELSE 0
history_kept == UNCHANGED <<written, marked>>
history_reset == written' = reset(written) /\ marked' = reset(marked)
(* the call returns: one more call that left a sequence open, or none *)
returned ==
    unfinished' = CASE unfinished = Unobserved -> unfinished
                    [] state' = TERMINAL_NORMAL_MODE -> 0
                    [] OTHER -> unfinished + 1
screen_kept == UNCHANGED screen
move(cur) ==
    /\ cursor' = cur
    /\ UNCHANGED <<cursor_saved, cursor_on, attribute, attributes, m>>

(***************************************************************************)
(* vt100_update, state == TERMINAL_NORMAL_MODE                             *)
(***************************************************************************)
is_glyph(b) == b \notin {ESCAPE, TAB, CR, LF, DELETE, BACKSPACE}

(* the cursor rounded up to a multiple of 8 that may be the cursor itself *)
tab_stop_inclusive(cur) == (cur + 7) - ((cur + 7) % 8)

(* t->cursor += 8; t->cursor &= ~0x7 *)
tab_stop(cur) == (cur + 8) - ((cur + 8) % 8)

(* the rounding down to the start of the row left out *)
next_line_keeps_column(cur) == cur + width

(* t->cursor += t->width; t->cursor = (t->cursor / t->width) * t->width *)
next_line(cur) == ((cur + width) \div width) * width

(* the cursor after the switch, before the overflow test *)
normal_cursor(b) ==
    CASE b = ESCAPE -> cursor
      [] b = TAB -> tab_stop(cursor)
      [] b \in {CR, LF} -> next_line(cursor)
      [] b \in {DELETE, BACKSPACE} -> terminal_at_xy_relative(-1, 0, TRUE)
      [] OTHER -> cursor + 1

(* BS and DEL storing the byte itself in place of ' ' *)
normal_m_stores_byte(b) ==
    CASE b \in {DELETE, BACKSPACE} ->
            [m EXCEPT ![terminal_at_xy_relative(-1, 0, TRUE)] = b]
      [] is_glyph(b) -> [m EXCEPT ![cursor] = b]
      [] OTHER -> m

(* t->m after the switch *)
normal_m(b) ==
    CASE b \in {DELETE, BACKSPACE} ->
            [m EXCEPT ![terminal_at_xy_relative(-1, 0, TRUE)] = SPACE]
      [] is_glyph(b) -> [m EXCEPT ![cursor] = b]
      [] OTHER -> m

(* the memcpy of the current attribute left out *)
normal_attributes_kept(b) == attributes

(* t->attributes after the switch *)
normal_attributes(b) ==
    IF is_glyph(b) THEN [attributes EXCEPT ![cursor] = attribute] ELSE attributes

(* > in place of >= *)
overflows_late(cur) == cur > size

(* if(t->cursor >= t->size) *)
overflows(cur) == cur >= size

(* the wrap left out *)
wrap_missing(cur) == cur

(* t->cursor %= t->size *)
wrap(cur) == cur % size

NormalMode(b) ==
    /\ state = TERMINAL_NORMAL_MODE
    /\ called(b)
    /\ state' = IF b = ESCAPE THEN TERMINAL_CSI ELSE state
    /\ ret' = 0
    /\ IF overflows(normal_cursor(b))
       THEN /\ attributes' = terminal_attribute_block_set(normal_attributes(b), size)
            /\ m' = memset_space(normal_m(b), size)
       ELSE /\ attributes' = normal_attributes(b)
            /\ m' = normal_m(b)
    /\ cursor' = wrap(normal_cursor(b))
    /\ UNCHANGED <<cursor_saved, cursor_on, attribute>>
    /\ parser_kept
    /\ CASE overflows(normal_cursor(b)) -> history_reset
         [] is_glyph(b) -> written' = count(written) /\ UNCHANGED marked
         [] OTHER -> history_kept
    /\ returned

(***************************************************************************)
(* terminal_escape_sequences, one action per state                         *)
(***************************************************************************)
(* a failing byte handled as text as well *)
Csi_echo(b) ==
    /\ state = TERMINAL_CSI
    /\ called(b)
    /\ IF b = CH_LBRACKET
       THEN pending(TERMINAL_COMMAND) /\ screen_kept
       ELSE /\ fail
            /\ m' = [m EXCEPT ![cursor] = b]
            /\ UNCHANGED <<cursor, cursor_saved, cursor_on, attribute, attributes>>
    /\ parser_kept
    /\ history_kept
    /\ returned

Csi(b) ==
    /\ state = TERMINAL_CSI
    /\ called(b)
    /\ IF b = CH_LBRACKET THEN pending(TERMINAL_COMMAND) ELSE fail
    /\ screen_kept
    /\ parser_kept
    /\ history_kept
    /\ returned

(* case 's': the value stored in t->cursor_saved *)
cursor_to_save == cursor

(* a restore that leaves the cursor where it is *)
cursor_to_restore_kept == cursor

(* case 'n': the value stored in t->cursor *)
cursor_to_restore == cursor_saved

(* t->command_index++ left out *)
first_digit_index_unincremented == 0 + 0

(* terminal_default_command_sequence(t); t->command_index++ *)
first_digit_index == 0 + 1

Command(b) ==
    /\ state = TERMINAL_COMMAND
    /\ called(b)
    /\ history_kept
    /\ CASE b = CH_s ->
              /\ cursor_saved' = cursor_to_save
              /\ UNCHANGED <<cursor, cursor_on, attribute, attributes, m>>
              /\ parser_kept
              /\ success
         [] b = CH_n ->
              /\ move(cursor_to_restore)
              /\ parser_kept
              /\ success
         [] b = CH_QUERY ->
              /\ terminal_default_command_sequence
              /\ screen_kept
              /\ pending(TERMINAL_DECTCEM)
         [] b = CH_SEMI ->
              /\ terminal_default_command_sequence
              /\ screen_kept
              /\ pending(TERMINAL_NUMBER_2)
         [] OTHER ->
              IF isdigit(b)
              THEN /\ n1' = b - CH_0
                   /\ n2' = 1
                   /\ command_index' = first_digit_index
                   /\ screen_kept
                   /\ pending(TERMINAL_NUMBER_1)
              ELSE /\ screen_kept
                   /\ parser_kept
                   /\ fail
    /\ returned

(* case 'J' with case 0 clearing the cell under the cursor too *)
erase_count_inclusive ==
    IF n1 \in {1, 2, 3} /\ command_index # 0
    THEN size
    ELSE (IF n1 \in {2, 3} THEN 0 ELSE cursor) + 1

(* cases 3 and 2 without t->cursor = 0 *)
erase_cursor_kept == cursor

(* case 'J' of TERMINAL_NUMBER_1: the cursor it leaves *)
erase_cursor == IF n1 \in {2, 3} THEN 0 ELSE cursor

(* case 'J': how many leading cells are cleared (cases 3, 2 and 1 clear the
   whole screen when a digit was supplied, and fall through to case 0, which
   clears the cells before the cursor) *)
erase_count ==
    IF n1 \in {1, 2, 3} /\ command_index # 0 THEN size ELSE erase_cursor

(* the relative commands wrapping where they should clamp *)
number1_cursor_wrap(b) ==
    CASE b = CH_A -> terminal_at_xy_relative(0, -n1, FALSE)
      [] b = CH_B -> terminal_at_xy_relative(0, n1, FALSE)
      [] b = CH_C -> terminal_at_xy_relative(n1, 0, FALSE)
      [] b = CH_D -> terminal_at_xy_relative(-n1, 0, FALSE)
      [] b = CH_E -> terminal_at_xy(0, n1, FALSE)
      [] b = CH_F -> terminal_at_xy(0, -n1, FALSE)
      [] b = CH_G -> terminal_at_xy(n1, terminal_y_current, FALSE)

(* the cursor a one-parameter cursor command stores *)
number1_cursor(b) ==
    CASE b = CH_A -> terminal_at_xy_relative(0, -n1, TRUE)
      [] b = CH_B -> terminal_at_xy_relative(0, n1, TRUE)
      [] b = CH_C -> terminal_at_xy_relative(n1, 0, TRUE)
      [] b = CH_D -> terminal_at_xy_relative(-n1, 0, TRUE)
      [] b = CH_E -> terminal_at_xy(0, n1, FALSE)
      [] b = CH_F -> terminal_at_xy(0, -n1, FALSE)
      [] b = CH_G -> terminal_at_xy(n1, terminal_y_current, TRUE)

Number1(b) ==
    /\ state = TERMINAL_NUMBER_1
    /\ called(b)
    /\ CASE b = CH_m -> marked' = count(marked) /\ UNCHANGED written
         [] b = CH_J /\ n1 \in {0, 1, 2, 3} /\ erase_count = size -> history_reset
         [] OTHER -> history_kept
    /\ CASE isdigit(b) ->
              IF command_index > NUMBER_DIGIT_LIMIT
              THEN screen_kept /\ parser_kept /\ fail
              ELSE /\ n1' = accumulate(n1, b)
                   /\ command_index' = command_index + 1
                   /\ UNCHANGED n2
                   /\ screen_kept
                   /\ pending(TERMINAL_NUMBER_1)
         [] b \in {CH_A, CH_B, CH_C, CH_D, CH_E, CH_F, CH_G} ->
              move(number1_cursor(b)) /\ parser_kept /\ success
         [] b = CH_m ->
              /\ attribute' = terminal_parse_attribute(attribute, n1)
              /\ attributes' = [attributes EXCEPT ![cursor] = attribute']
              /\ UNCHANGED <<cursor, cursor_saved, cursor_on, m>>
              /\ parser_kept
              /\ success
         [] b = CH_i ->
              /\ screen_kept
              /\ parser_kept
              /\ IF n1 = 5 \/ n1 = 4 THEN success ELSE fail
         [] b = CH_n ->
              /\ screen_kept
              /\ parser_kept
              /\ IF n1 = 6 THEN success ELSE fail
         [] b = CH_J ->
              IF n1 \in {0, 1, 2, 3}
              THEN /\ cursor' = erase_cursor
                   /\ m' = memset_space(m, erase_count)
                   /\ attributes' = terminal_attribute_block_set(attributes, erase_count)
                   /\ UNCHANGED <<cursor_saved, cursor_on, attribute>>
                   /\ parser_kept
                   /\ success
              ELSE screen_kept /\ parser_kept /\ fail
         [] b = CH_SEMI ->
              /\ command_index' = 0
              /\ UNCHANGED <<n1, n2>>
              /\ screen_kept
              /\ pending(TERMINAL_NUMBER_2)
         [] OTHER -> screen_kept /\ parser_kept /\ fail
    /\ returned

(* row and column exchanged *)
position_cursor_swapped == terminal_at_xy(n1, n2, TRUE)

(* case 'H', 'f' of TERMINAL_NUMBER_2 *)
position_cursor == terminal_at_xy(n2, n1, TRUE)

(* case 'm' parsing n2 before n1 *)
number2_attribute_reversed ==
    terminal_parse_attribute(terminal_parse_attribute(attribute, n2), n1)

(* case 'm' of TERMINAL_NUMBER_2: n1 is parsed into t->attribute, then n2 *)
number2_attribute ==
    terminal_parse_attribute(terminal_parse_attribute(attribute, n1), n2)

Number2(b) ==
    /\ state = TERMINAL_NUMBER_2
    /\ called(b)
    /\ IF b = CH_m THEN marked' = count(marked) /\ UNCHANGED written
                   ELSE history_kept
    /\ CASE isdigit(b) ->
              IF command_index > NUMBER_DIGIT_LIMIT
              THEN screen_kept /\ parser_kept /\ fail
              ELSE /\ n2' = accumulate(n2, b)
                   /\ command_index' = command_index + 1
                   /\ UNCHANGED n1
                   /\ screen_kept
                   /\ pending(TERMINAL_NUMBER_2)
         [] b = CH_m ->
              /\ attribute' = number2_attribute
              /\ attributes' = [attributes EXCEPT ![cursor] = attribute']
              /\ UNCHANGED <<cursor, cursor_saved, cursor_on, m>>
              /\ parser_kept
              /\ success
         [] b \in {CH_H, CH_f} ->
              move(position_cursor) /\ parser_kept /\ success
         [] OTHER -> screen_kept /\ parser_kept /\ fail
    /\ returned

Dectcem(b) ==
    /\ state = TERMINAL_DECTCEM
    /\ called(b)
    /\ history_kept
    /\ CASE isdigit(b) ->
              IF command_index > DECTCEM_DIGIT_LIMIT
              THEN screen_kept /\ parser_kept /\ fail
              ELSE /\ n1' = accumulate(n1, b)
                   /\ command_index' = command_index + 1
                   /\ UNCHANGED n2
                   /\ screen_kept
                   /\ pending(TERMINAL_DECTCEM)
         [] ~isdigit(b) /\ n1 # DECTCEM_PARAMETER ->
              screen_kept /\ parser_kept /\ fail
         [] b \in {CH_l, CH_h} ->
              /\ cursor_on' = (b = CH_h)
              /\ UNCHANGED <<cursor, cursor_saved, attribute, attributes, m>>
              /\ parser_kept
              /\ success
         [] OTHER -> screen_kept /\ parser_kept /\ fail
    /\ returned

(***************************************************************************)
(* The FIFO: fifo_new, fifo_is_full, fifo_is_empty, fifo_count, fifo_push  *)
(* and fifo_pop.  One step of the model is one call.                       *)
(***************************************************************************)
fifo_new(n) ==
    /\ fifo_size = n
    /\ head = 0
    /\ tail = 0
    /\ buffer = [i \in 0 .. n - 1 |-> 0]
    /\ fifo_call = "fifo_new"
    /\ fifo_ret = 0
    /\ data = 0
    /\ pushed = <<>>
    /\ popped = <<>>

(* the test without the case of the head in the last slot *)
fifo_is_full_no_wrap == head = tail - 1

fifo_is_full ==
    \/ (head = fifo_size - 1 /\ tail = 0)
    \/ head = tail - 1

fifo_is_empty == head = tail

fifo_count ==
    CASE fifo_is_empty -> 0
      [] fifo_is_full -> fifo_size
      [] head < tail -> head + (fifo_size - tail)
      [] OTHER -> head - tail

(* the index after i: i++, and 0 when it reaches the size *)
fifo_next(i) == IF i + 1 = fifo_size THEN 0 ELSE i + 1

fifo_push(b) ==
    /\ fifo_call' = "fifo_push"
    /\ IF fifo_is_full
       THEN /\ fifo_ret' = 0
            /\ UNCHANGED <<buffer, head, pushed>>
       ELSE /\ buffer' = [buffer EXCEPT ![head] = b]
            /\ head' = fifo_next(head)
            /\ pushed' = Append(pushed, b)
            /\ fifo_ret' = 1
    /\ UNCHANGED <<tail, fifo_size, data, popped>>
    /\ UNCHANGED threads
    /\ UNCHANGED terminal

(* the byte fifo_pop stores in *data, read at the head in place of the tail *)
fifo_pop_data_newest == buffer[IF head = 0 THEN fifo_size - 1 ELSE head - 1]

(* the byte fifo_pop stores in *data *)
fifo_pop_data == buffer[tail]

fifo_pop ==
    /\ fifo_call' = "fifo_pop"
    /\ IF fifo_is_empty
       THEN /\ fifo_ret' = 0
            /\ UNCHANGED <<data, tail, popped>>
       ELSE /\ data' = fifo_pop_data
            /\ tail' = fifo_next(tail)
            /\ popped' = Append(popped, fifo_pop_data)
            /\ fifo_ret' = 1
    /\ UNCHANGED <<head, fifo_size, buffer, pushed>>
    /\ UNCHANGED threads
    /\ UNCHANGED terminal

(***************************************************************************)
(* fifo_push and fifo_pop statement by statement, for a producer and a     *)
(* consumer that run at the same time.  Each step reads or writes head,    *)
(* tail or the buffer once; a call that is not in progress is at "idle".   *)
(* The fifo_t has no volatile or atomic field, so the increment of an      *)
(* index and its wrap to 0 may reach memory as the two stores of the       *)
(* source or as one store of the wrapped value.                            *)
(***************************************************************************)
no_call ==
    /\ producer_pc = "idle"
    /\ producer_data = 0
    /\ consumer_pc = "idle"

push_kept == UNCHANGED <<tail, fifo_size, data, popped, consumer_pc>>
pop_kept == UNCHANGED <<head, fifo_size, buffer, pushed, producer_pc, producer_data>>

(* fifo_push(fifo, b) is entered *)
push_call(b) ==
    /\ producer_pc = "idle"
    /\ producer_pc' = "is_full_last"
    /\ producer_data' = b
    /\ UNCHANGED <<head, buffer, pushed, fifo_call, fifo_ret>>
    /\ push_kept
    /\ UNCHANGED terminal

(* fifo->head == (fifo->size - 1) && fifo->tail == 0 *)
push_is_full_last ==
    /\ producer_pc = "is_full_last"
    /\ IF head = fifo_size - 1 /\ tail = 0
       THEN /\ producer_pc' = "idle"
            /\ fifo_call' = "fifo_push"
            /\ fifo_ret' = 0
       ELSE /\ producer_pc' = "is_full_next"
            /\ UNCHANGED <<fifo_call, fifo_ret>>
    /\ UNCHANGED <<head, buffer, pushed, producer_data>>
    /\ push_kept
    /\ UNCHANGED terminal

(* fifo->head == (fifo->tail - 1) *)
push_is_full_next ==
    /\ producer_pc = "is_full_next"
    /\ IF head = tail - 1
       THEN /\ producer_pc' = "idle"
            /\ fifo_call' = "fifo_push"
            /\ fifo_ret' = 0
       ELSE /\ producer_pc' = "store"
            /\ UNCHANGED <<fifo_call, fifo_ret>>
    /\ UNCHANGED <<head, buffer, pushed, producer_data>>
    /\ push_kept
    /\ UNCHANGED terminal

(* fifo->buffer[fifo->head] = data: the byte is accepted *)
push_store ==
    /\ producer_pc = "store"
    /\ buffer' = [buffer EXCEPT ![head] = producer_data]
    /\ pushed' = Append(pushed, producer_data)
    /\ producer_pc' = "increment"
    /\ UNCHANGED <<head, producer_data, fifo_call, fifo_ret>>
    /\ push_kept
    /\ UNCHANGED terminal

(* fifo->head++ *)
push_increment ==
    /\ producer_pc = "increment"
    /\ head' = head + 1
    /\ producer_pc' = "wrap"
    /\ UNCHANGED <<buffer, pushed, producer_data, fifo_call, fifo_ret>>
    /\ push_kept
    /\ UNCHANGED terminal

(* if (fifo->head == fifo->size) fifo->head = 0; return 1 *)
push_wrap ==
    /\ producer_pc = "wrap"
    /\ head' = IF head = fifo_size THEN 0 ELSE head
    /\ producer_pc' = "idle"
    /\ fifo_call' = "fifo_push"
    /\ fifo_ret' = 1
    /\ UNCHANGED <<buffer, pushed, producer_data>>
    /\ push_kept
    /\ UNCHANGED terminal

(* the increment and the wrap as one store; return 1 *)
push_advance ==
    /\ producer_pc = "increment"
    /\ head' = fifo_next(head)
    /\ producer_pc' = "idle"
    /\ fifo_call' = "fifo_push"
    /\ fifo_ret' = 1
    /\ UNCHANGED <<buffer, pushed, producer_data>>
    /\ push_kept
    /\ UNCHANGED terminal

(* fifo_pop(fifo, &data) is entered *)
pop_call ==
    /\ consumer_pc = "idle"
    /\ consumer_pc' = "is_empty"
    /\ UNCHANGED <<tail, data, popped, fifo_call, fifo_ret>>
    /\ pop_kept
    /\ UNCHANGED terminal

(* fifo->head == fifo->tail *)
pop_is_empty ==
    /\ consumer_pc = "is_empty"
    /\ IF head = tail
       THEN /\ consumer_pc' = "idle"
            /\ fifo_call' = "fifo_pop"
            /\ fifo_ret' = 0
       ELSE /\ consumer_pc' = "load"
            /\ UNCHANGED <<fifo_call, fifo_ret>>
    /\ UNCHANGED <<tail, data, popped>>
    /\ pop_kept
    /\ UNCHANGED terminal

(* *data = fifo->buffer[fifo->tail]: the byte is delivered *)
pop_load ==
    /\ consumer_pc = "load"
    /\ data' = buffer[tail]
    /\ popped' = Append(popped, buffer[tail])
    /\ consumer_pc' = "increment"
    /\ UNCHANGED <<tail, fifo_call, fifo_ret>>
    /\ pop_kept
    /\ UNCHANGED terminal

(* fifo->tail++ *)
pop_increment ==
    /\ consumer_pc = "increment"
    /\ tail' = tail + 1
    /\ consumer_pc' = "wrap"
    /\ UNCHANGED <<data, popped, fifo_call, fifo_ret>>
    /\ pop_kept
    /\ UNCHANGED terminal

(* if (fifo->tail == fifo->size) fifo->tail = 0; return 1 *)
pop_wrap ==
    /\ consumer_pc = "wrap"
    /\ tail' = IF tail = fifo_size THEN 0 ELSE tail
    /\ consumer_pc' = "idle"
    /\ fifo_call' = "fifo_pop"
    /\ fifo_ret' = 1
    /\ UNCHANGED <<data, popped>>
    /\ pop_kept
    /\ UNCHANGED terminal

(* the increment and the wrap as one store; return 1 *)
pop_advance ==
    /\ consumer_pc = "increment"
    /\ tail' = fifo_next(tail)
    /\ consumer_pc' = "idle"
    /\ fifo_call' = "fifo_pop"
    /\ fifo_ret' = 1
    /\ UNCHANGED <<data, popped>>
    /\ pop_kept
    /\ UNCHANGED terminal

(***************************************************************************)
(* The terminal after main() has run vt100_initialize and                  *)
(* initialize_rendering: vga_terminal's initializer, default attributes    *)
(* everywhere and an all-space screen, here of w columns and h rows.       *)
(***************************************************************************)
vga_terminal(w, h) ==
    /\ width = w
    /\ height = h
    /\ size = w * h
    /\ cursor = 0
    /\ cursor_saved = 0
    /\ state = TERMINAL_NORMAL_MODE
    /\ cursor_on = TRUE
    /\ blinks = FALSE
    /\ n1 = 1
    /\ n2 = 1
    /\ command_index = 0
    /\ attribute = vt100_default_attribute
    /\ attributes = [i \in 0 .. (w * h) - 1 |-> vt100_default_attribute]
    /\ m = [i \in 0 .. (w * h) - 1 |-> SPACE]
    /\ c = 0
    /\ ret = 0

(***************************************************************************)
(* vt100_update(t, b) for the bytes its callers pass: bytes of Text while  *)
(* no sequence is open and bytes of Sequence while one is.  The state      *)
(* selects the branch, as in vt100_update and terminal_escape_sequences.   *)
(***************************************************************************)
Feed(Text, Sequence) ==
    \/ \E b \in Text : NormalMode(b)
    \/ \E b \in Sequence : Csi(b)
    \/ \E b \in Sequence : Command(b)
    \/ \E b \in Sequence : Number1(b)
    \/ \E b \in Sequence : Number2(b)
    \/ \E b \in Sequence : Dectcem(b)

(* a caller whose sequences have one parameter at most: Sequence holds
   neither ';' nor '?', so TERMINAL_NUMBER_2 and TERMINAL_DECTCEM are never
   entered *)
FeedOneParameter(Text, Sequence) ==
    \/ \E b \in Text : NormalMode(b)
    \/ \E b \in Sequence : Csi(b)
    \/ \E b \in Sequence : Command(b)
    \/ \E b \in Sequence : Number1(b)

(***************************************************************************)
(* Spec: text with one printable glyph and the control bytes, and          *)
(* sequences over one digit that reach every parser state.                 *)
(***************************************************************************)
Text == {ESCAPE, TAB, LF, CR, BACKSPACE, DELETE, CH_A}
Sequence ==
    {CH_LBRACKET, CH_0 + 2, CH_SEMI, CH_QUERY, CH_J, CH_A, CH_H, CH_i, CH_n,
     ESCAPE}
(* main() creates the FIFOs before the terminal; no history is recorded *)
uart_fifo ==
    /\ no_call
    /\ fifo_new(FifoSize)
    /\ fed = Unfed

(* a specification with one terminal has no second vt100_t *)
Alone == <<>>

unobserved ==
    /\ twin = Alone
    /\ written = Unobserved
    /\ marked = Unobserved
    /\ unfinished = Unobserved

Init ==
    /\ vga_terminal(TextWidth, TextHeight)
    /\ uart_fifo
    /\ unobserved
Next == Feed(Text, Sequence)
Spec == Init /\ [][Next]_vars

(***************************************************************************)
(* SpecCursor: every cursor command on a wider screen.  The only glyph     *)
(* written is a space, so the states differ in the cursor, the saved       *)
(* cursor and the parser.                                                  *)
(***************************************************************************)
CursorText == {ESCAPE, TAB, LF, CR, BACKSPACE, DELETE, SPACE}
CursorSequence ==
    {CH_LBRACKET, CH_0 + 2, CH_SEMI, CH_QUERY, CH_s, CH_n, CH_H, CH_f,
     CH_A, CH_B, CH_C, CH_D, CH_E, CH_F, CH_G, CH_J, ESCAPE}
InitCursor ==
    /\ vga_terminal(Width, Height)
    /\ uart_fifo
    /\ unobserved
NextCursor == Feed(CursorText, CursorSequence)
SpecCursor == InitCursor /\ [][NextCursor]_vars

(***************************************************************************)
(* SpecWrite: text written with a changing attribute.  ESC [ 1 m makes the *)
(* current attribute bold, ESC [ s saves the cursor.                       *)
(***************************************************************************)
WriteText == {ESCAPE, LF, BACKSPACE, CH_A}
WriteSequence == {CH_LBRACKET, CH_0 + 1, CH_m, CH_s}
NextWrite == FeedOneParameter(WriteText, WriteSequence)
SpecWrite == Init /\ [][NextWrite]_vars

(***************************************************************************)
(* SpecErase: text, coloured by ESC [ 3 2 m and ESC [ 3 3 m, and the       *)
(* erase commands ESC [ 2 J and ESC [ 3 J.                                 *)
(***************************************************************************)
EraseText == {ESCAPE, CH_A}
EraseSequence == {CH_LBRACKET, CH_0 + 2, CH_0 + 3, CH_m, CH_J}
NextErase == FeedOneParameter(EraseText, EraseSequence)
SpecErase == Init /\ [][NextErase]_vars

(***************************************************************************)
(* SpecBytes: text that holds a byte below 0x20 (BEL, 7) and every byte    *)
(* vt100_update treats as a control.                                       *)
(***************************************************************************)
BytesText == {ESCAPE, TAB, LF, CR, BACKSPACE, DELETE, 7}
BytesSequence == {CH_LBRACKET, CH_0 + 2, CH_J, CH_C}
NextBytes == FeedOneParameter(BytesText, BytesSequence)
SpecBytes == Init /\ [][NextBytes]_vars

(***************************************************************************)
(* SpecPosition: ESC [ r ; c H and ESC [ r ; c f with parameters over the  *)
(* digits 0 and 2, on the wider screen.                                    *)
(***************************************************************************)
PositionText == {ESCAPE, SPACE}
PositionSequence == {CH_LBRACKET, CH_0, CH_0 + 2, CH_SEMI, CH_QUERY, CH_H, CH_f}
NextPosition == Feed(PositionText, PositionSequence)
SpecPosition == InitCursor /\ [][NextPosition]_vars

(***************************************************************************)
(* SpecAttribute: glyphs written in the default attribute and, after       *)
(* ESC [ 1 m, in bold; ESC [ 1 J clears the screen; the history of writes  *)
(* is observed.                                                            *)
(***************************************************************************)
AttributeText == {ESCAPE, CH_A}
AttributeSequence == {CH_LBRACKET, CH_0 + 1, CH_m, CH_J}
InitAttribute ==
    /\ twin = Alone
    /\ vga_terminal(TextWidth, TextHeight)
    /\ uart_fifo
    /\ written = 0
    /\ marked = 0
    /\ unfinished = Unobserved
NextAttribute == FeedOneParameter(AttributeText, AttributeSequence)
SpecAttribute == InitAttribute /\ [][NextAttribute]_vars

(***************************************************************************)
(* SpecDectcem: the private-mode sequences ESC [ ? p l and ESC [ ? p h     *)
(* with parameters over the digits 2 and 5, beside the other sequences the *)
(* same bytes form.                                                        *)
(***************************************************************************)
DectcemText == {ESCAPE, SPACE}
DectcemSequence ==
    {CH_LBRACKET, CH_QUERY, CH_SEMI, CH_0 + 2, CH_0 + 5, CH_l, CH_h, CH_H}
NextDectcem == Feed(DectcemText, DectcemSequence)
SpecDectcem == Init /\ [][NextDectcem]_vars

(***************************************************************************)
(* SpecSgr: ESC [ v m for every v of one to four digits over 0, 1, 3 and   *)
(* 4: the reset, bold, underscore, four colours of either ground, and      *)
(* parameters that are none of these.                                      *)
(***************************************************************************)
SgrText == {ESCAPE}
SgrSequence == {CH_LBRACKET, CH_0, CH_0 + 1, CH_0 + 3, CH_0 + 4, CH_m}
NextSgr == FeedOneParameter(SgrText, SgrSequence)
SpecSgr == Init /\ [][NextSgr]_vars

(***************************************************************************)
(* SpecFifo: a producer that pushes up to MaxPushes bytes and a consumer   *)
(* that pops and passes every byte it obtains to vt100_update before it    *)
(* pops again, as the loop of draw_scene does.  Both call at any time, on  *)
(* a full and on an empty FIFO too.                                        *)
(***************************************************************************)
FifoData == {ESCAPE, CH_LBRACKET, CH_SEMI, CH_QUERY, CH_0 + 1, CH_A}

InitFifo ==
    /\ vga_terminal(TextWidth, TextHeight)
    /\ fifo_new(FifoSize)
    /\ no_call
    /\ fed = <<>>
    /\ unobserved

(* the consumer holds a byte it has popped and not yet fed *)
undelivered == Len(fed) < Len(popped)

Producer ==
    /\ Len(pushed) < MaxPushes
    /\ \E b \in FifoData : fifo_push(b)

Consumer == ~undelivered /\ fifo_pop

Deliver == undelivered /\ Feed({data}, {data})

NextFifo == Producer \/ Consumer \/ Deliver
SpecFifo == InitFifo /\ [][NextFifo]_vars

(***************************************************************************)
(* SpecEraseBefore: on a screen of one row, glyphs written in bold or in   *)
(* the default attribute (ESC [ 1 m, ESC [ 0 m), the cursor moved back     *)
(* over them by ESC [ v D, and the erase commands ESC [ v J with v over    *)
(* the digits 0 and 1: ESC [ 0 J, ESC [ 1 J, and parameters such as 10 and *)
(* 11 that are no erase mode.                                              *)
(***************************************************************************)
EraseBeforeText == {ESCAPE, CH_A}
EraseBeforeSequence == {CH_LBRACKET, CH_0, CH_0 + 1, CH_m, CH_J, CH_D}
InitLine ==
    /\ vga_terminal(LineWidth, 1)
    /\ uart_fifo
    /\ unobserved
NextEraseBefore == FeedOneParameter(EraseBeforeText, EraseBeforeSequence)
SpecEraseBefore == InitLine /\ [][NextEraseBefore]_vars

(***************************************************************************)
(* SpecMove: the one-parameter cursor commands with parameters over the    *)
(* digits 0, 1 and 2, on the wider screen: moves that stay inside the      *)
(* screen, moves that reach its edge, and the parameter 0.                 *)
(***************************************************************************)
MoveText == {ESCAPE, SPACE}
MoveSequence ==
    {CH_LBRACKET, CH_0, CH_0 + 1, CH_0 + 2, CH_A, CH_B, CH_C, CH_D, CH_E,
     CH_F, CH_G}
NextMove == FeedOneParameter(MoveText, MoveSequence)
SpecMove == InitCursor /\ [][NextMove]_vars

(***************************************************************************)
(* SpecLine: TAB, LF and CR on the wider screen, among glyphs written in   *)
(* bold (ESC [ 1 m) or in the default attribute.  The caller types at most *)
(* MaxGlyphs glyphs between two clears of the screen.                      *)
(***************************************************************************)
LineText == {ESCAPE, TAB, LF, CR}
LineSequence == {CH_LBRACKET, CH_0 + 1, CH_m}
InitTyped ==
    /\ twin = Alone
    /\ vga_terminal(Width, Height)
    /\ uart_fifo
    /\ written = 0
    /\ marked = Unobserved
    /\ unfinished = Unobserved
Type == written < MaxGlyphs /\ NormalMode(CH_A)
NextLine == FeedOneParameter(LineText, LineSequence) \/ Type
SpecLine == InitTyped /\ [][NextLine]_vars

(***************************************************************************)
(* SpecPair: select graphic rendition with one or two parameters, either   *)
(* of which may be left out.                                               *)
(***************************************************************************)
PairText == {ESCAPE}
PairSequence == {CH_LBRACKET, CH_0, CH_0 + 1, CH_SEMI, CH_QUERY, CH_m}
NextPair == Feed(PairText, PairSequence)
SpecPair == Init /\ [][NextPair]_vars

(***************************************************************************)
(* SpecRun: sequences of every length, the calls since the last return to  *)
(* TERMINAL_NORMAL_MODE being counted.                                     *)
(***************************************************************************)
RunText == {ESCAPE, CH_A}
RunSequence == {CH_LBRACKET, CH_0 + 1, CH_SEMI, CH_QUERY, CH_H}
InitRun ==
    /\ twin = Alone
    /\ vga_terminal(TextWidth, TextHeight)
    /\ uart_fifo
    /\ written = Unobserved
    /\ marked = Unobserved
    /\ unfinished = 0
NextRun == Feed(RunText, RunSequence)
SpecRun == InitRun /\ [][NextRun]_vars

(***************************************************************************)
(* SpecTwin: two vt100_t of the same geometry are fed the same bytes.  The *)
(* variables hold the terminal whose turn it is and twin holds the other:  *)
(* a byte is fed to the first (fed records it), Swap exchanges the two,    *)
(* the same byte is fed to the second, and Join forgets the byte.  The     *)
(* terminals start on the initial screen with different parameters left    *)
(* over: the twin has been through ESC [ 2 2 ; 2 and a byte that fails,    *)
(* ESC [ ? 2 5 h, ESC [ 0 J at cursor 0, or ESC [ 2 2 2 2 and a fifth      *)
(* digit, none of which changes what the initial screen shows.             *)
(***************************************************************************)
TwinText == {ESCAPE, LF}
TwinSequence == {CH_LBRACKET, CH_0 + 2, CH_SEMI, CH_QUERY, CH_H, CH_J, CH_l,
                 CH_s}
Leftovers == {<<22, 2, 1>>, <<25, 1, 2>>, <<0, 1, 1>>, <<2222, 1, 4>>}

(* the fields of the vt100_t held in the variables *)
this ==
    [cursor |-> cursor, cursor_saved |-> cursor_saved, n1 |-> n1, n2 |-> n2,
     state |-> state, cursor_on |-> cursor_on, attribute |-> attribute,
     attributes |-> attributes, m |-> m, command_index |-> command_index,
     c |-> c, ret |-> ret, fed |-> fed]

InitTwin ==
    /\ vga_terminal(TextWidth, TextHeight)
    /\ fifo_new(FifoSize)
    /\ no_call
    /\ fed = <<>>
    /\ written = Unobserved
    /\ marked = Unobserved
    /\ unfinished = Unobserved
    /\ \E l \in Leftovers :
          twin = [this EXCEPT !.n1 = l[1], !.n2 = l[2], !.command_index = l[3]]

First == fed = <<>> /\ twin.fed = <<>> /\ Feed(TwinText, TwinSequence)

Swap ==
    /\ fed # <<>>
    /\ twin.fed = <<>>
    /\ twin' = this
    /\ cursor' = twin.cursor
    /\ cursor_saved' = twin.cursor_saved
    /\ n1' = twin.n1
    /\ n2' = twin.n2
    /\ state' = twin.state
    /\ cursor_on' = twin.cursor_on
    /\ attribute' = twin.attribute
    /\ attributes' = twin.attributes
    /\ m' = twin.m
    /\ command_index' = twin.command_index
    /\ c' = twin.c
    /\ ret' = twin.ret
    /\ fed' = twin.fed
    /\ UNCHANGED <<geometry, fifo, written, marked, unfinished>>

Second ==
    /\ fed = <<>>
    /\ twin.fed # <<>>
    /\ Feed({twin.fed[1]}, {twin.fed[1]})

Join ==
    /\ fed # <<>>
    /\ twin.fed # <<>>
    /\ fed' = <<>>
    /\ twin' = [twin EXCEPT !.fed = <<>>]
    /\ UNCHANGED <<screen, geometry, fifo, n1, n2, command_index, state, c,
                   ret, written, marked, unfinished>>

NextTwin == First \/ Swap \/ Second \/ Join
SpecTwin == InitTwin /\ [][NextTwin]_vars

(***************************************************************************)
(* SpecThreads: one producer calls fifo_push and one consumer calls        *)
(* fifo_pop at the same time, every statement of one interleaved with the  *)
(* statements of the other.  The terminal is not fed.  The producer stops  *)
(* after MaxPushes accepted bytes and the consumer after MaxPops delivered *)
(* ones.                                                                   *)
(***************************************************************************)
ThreadData == {CH_A, CH_B}
InitThreads ==
    /\ vga_terminal(TextWidth, TextHeight)
    /\ fifo_new(FifoSize)
    /\ no_call
    /\ fed = Unfed
    /\ unobserved
ProducerCalls == Len(pushed) < MaxPushes /\ \E b \in ThreadData : push_call(b)
ConsumerCalls == Len(popped) < MaxPops /\ pop_call
NextThreads ==
    \/ ProducerCalls
    \/ push_is_full_last
    \/ push_is_full_next
    \/ push_store
    \/ push_increment
    \/ push_wrap
    \/ push_advance
    \/ ConsumerCalls
    \/ pop_is_empty
    \/ pop_load
    \/ pop_increment
    \/ pop_wrap
    \/ pop_advance
SpecThreads == InitThreads /\ [][NextThreads]_vars

(***************************************************************************)
(* Properties                                                              *)
(***************************************************************************)
AllSpace == \A i \in DOMAIN m : m[i] = SPACE
AllDefault == \A i \in DOMAIN attributes : attributes[i] = vt100_default_attribute
Digits == CH_0 .. CH_0 + 9

(* C1: after every vt100_update call 0 <= cursor < size and
   0 <= cursor_saved < size, so assert(t->cursor < t->size) before the glyph
   write never fails. *)
C1_CursorInRange ==
    /\ cursor \in 0 .. size - 1
    /\ cursor_saved \in 0 .. size - 1

(* the cursor was saved in the last cell and is there now *)
C1_Witness ==
    /\ state = TERMINAL_NORMAL_MODE
    /\ cursor = size - 1
    /\ cursor_saved = size - 1

(* C2: from the ESC fed in normal mode to the byte on which the parser fails,
   no call changes m, attributes, cursor, cursor_saved, attribute or
   cursor_on, and the failing call leaves the state normal. *)
C2_FailedSequenceKeepsScreen ==
    [][/\ (state = TERMINAL_NORMAL_MODE /\ c' = ESCAPE) => UNCHANGED screen
       /\ (state # TERMINAL_NORMAL_MODE /\ state' # TERMINAL_NORMAL_MODE)
              => UNCHANGED screen
       /\ (state # TERMINAL_NORMAL_MODE /\ ret' = -1)
              => (UNCHANGED screen /\ state' = TERMINAL_NORMAL_MODE)]_vars

(* a sequence has just failed on a screen that shows a glyph *)
C2_Witness ==
    /\ ret = -1
    /\ state = TERMINAL_NORMAL_MODE
    /\ \E i \in DOMAIN m : m[i] = CH_A

(* the terminal right after a fifth digit was refused: four digits are in
   n1 and the call failed *)
Overflowed ==
    /\ state = TERMINAL_NORMAL_MODE
    /\ ret = -1
    /\ c \in Digits
    /\ command_index = 4
    /\ n2 = 1

(* C3 as claimed: after ESC [ and five digits the final byte 'A' is consumed
   too, without touching the screen. *)
C3_FinalByteDiscarded ==
    [][(Overflowed /\ c' = CH_A) => UNCHANGED screen]_vars

(* C3 as amended: the fifth digit fails the sequence and returns the parser
   to normal mode with the screen untouched; the final byte 'A' is then text
   and is written at the cursor. *)
C3_FifthDigitFails ==
    [][/\ (state = TERMINAL_NUMBER_1 /\ command_index = 4 /\ c' \in Digits)
          => (ret' = -1 /\ state' = TERMINAL_NORMAL_MODE /\ UNCHANGED screen)
       /\ (Overflowed /\ c' = CH_A)
          => /\ cursor < size - 1 => (m'[cursor] = CH_A /\ cursor' = cursor + 1)
             /\ cursor = size - 1 => cursor' = 0]_vars

(* a fifth digit has just been refused on a screen that shows a glyph *)
C3_Witness == Overflowed /\ m[0] = CH_A

(* C4 as claimed: the state is normal after every call. *)
C4_AlwaysNormal == state = TERMINAL_NORMAL_MODE

(* the bytes that can continue a sequence after ESC [ *)
ParameterBytes == Digits \cup {CH_SEMI, CH_QUERY}

(* C4 as amended: a call leaves the state other than normal only when it
   consumed ESC in normal mode, '[' right after ESC, or a digit, ';' or '?'
   after ESC [; a call that fails always leaves it normal. *)
C4_NormalUnlessSequenceOpen ==
    [][/\ state' # TERMINAL_NORMAL_MODE =>
              \/ state = TERMINAL_NORMAL_MODE /\ c' = ESCAPE
              \/ state = TERMINAL_CSI /\ c' = CH_LBRACKET
              \/ /\ state \notin {TERMINAL_NORMAL_MODE, TERMINAL_CSI}
                 /\ c' \in ParameterBytes
       /\ ret' = -1 => state' = TERMINAL_NORMAL_MODE]_vars

(* a sequence with two digits has failed and the state is normal again *)
C4_Witness ==
    /\ state = TERMINAL_NORMAL_MODE
    /\ ret = -1
    /\ command_index = 2

(* the bytes vt100_update does not store in normal mode *)
ControlBytes == {ESCAPE, TAB, LF, CR, BACKSPACE, DELETE}

(* C5 as claimed: every element of m is in [0x20, 0x7F) after every byte. *)
C5_GlyphsPrintable == \A i \in DOMAIN m : m[i] \in 32 .. 126

(* C5 as amended: every element of m is a byte other than ESC, TAB, LF, CR,
   BS and DEL, and a cell comes to hold a byte outside [0x20, 0x7F) only by a
   normal-mode call that writes that byte at the cursor: bytes below 0x20 and
   above 0x7F are stored like any other glyph. *)
C5_GlyphsAreTextBytes ==
    /\ [](\A i \in DOMAIN m : m[i] \in (0 .. 255) \ ControlBytes)
    /\ [][\A i \in DOMAIN m :
             (m'[i] \notin 32 .. 126 /\ m'[i] # m[i])
                 => (state = TERMINAL_NORMAL_MODE /\ c' = m'[i] /\ i = cursor)]_vars

(* BEL has been written and is on the screen *)
C5_Witness == c = 7 /\ \E i \in DOMAIN m : m[i] = 7

(* C6: in normal mode with the cursor before the last cell, a byte that is
   no control is stored at the cursor with the current attribute, the cursor
   advances by one, and no other cell, nor attribute, cursor_saved, cursor_on
   or the state, changes. *)
C6_GlyphWrite ==
    [][(state = TERMINAL_NORMAL_MODE /\ c' \notin ControlBytes /\ cursor < size - 1)
          => /\ m' = [m EXCEPT ![cursor] = c']
             /\ attributes' = [attributes EXCEPT ![cursor] = attribute]
             /\ cursor' = cursor + 1
             /\ UNCHANGED <<attribute, cursor_saved, cursor_on, state>>]_vars

(* a glyph was just written in bold next to a cell of another attribute *)
C6_Witness ==
    /\ state = TERMINAL_NORMAL_MODE
    /\ c = CH_A
    /\ cursor >= 2
    /\ m[cursor - 1] = CH_A
    /\ attributes[cursor - 1] = attribute
    /\ attribute.bold = 1
    /\ attributes[cursor - 2].bold = 0

(* C7: a glyph write clears the screen exactly when the cursor is in the last
   cell: then every glyph is a space, every attribute the default and the
   cursor 0, with attribute, cursor_saved and cursor_on kept; a glyph write
   anywhere else stores the glyph and clears no other cell. *)
C7_ClearOnOverflow ==
    [][(state = TERMINAL_NORMAL_MODE /\ c' \notin ControlBytes)
          => /\ cursor = size - 1 =>
                   /\ AllSpace' /\ AllDefault' /\ cursor' = 0
                   /\ UNCHANGED <<attribute, cursor_saved, cursor_on>>
             /\ cursor # size - 1 =>
                   /\ m'[cursor] = c' /\ cursor' = cursor + 1
                   /\ \A i \in DOMAIN m \ {cursor} :
                          m'[i] = m[i] /\ attributes'[i] = attributes[i]]_vars

(* the write in the last cell has just cleared the screen, with a bold
   current attribute and a saved cursor *)
C7_Witness ==
    /\ state = TERMINAL_NORMAL_MODE
    /\ c = CH_A
    /\ cursor = 0
    /\ AllSpace /\ AllDefault
    /\ attribute.bold = 1
    /\ cursor_saved = size - 1

(* C8: cursor_saved is written by ESC [ s alone, which stores the cursor;
   ESC [ n stores cursor_saved in the cursor; ESC and '[' move nothing.  So
   ESC [ n returns the cursor to where the last ESC [ s found it. *)
C8_SaveRestore ==
    [][/\ cursor_saved' # cursor_saved
              => (state = TERMINAL_COMMAND /\ c' = CH_s)
       /\ (state = TERMINAL_COMMAND /\ c' = CH_s)
              => (cursor_saved' = cursor /\ cursor' = cursor
                    /\ state' = TERMINAL_NORMAL_MODE)
       /\ (state = TERMINAL_COMMAND /\ c' = CH_n)
              => (cursor' = cursor_saved /\ cursor_saved' = cursor_saved
                    /\ state' = TERMINAL_NORMAL_MODE)
       /\ (state = TERMINAL_NORMAL_MODE /\ c' = ESCAPE)
              => (UNCHANGED <<cursor, cursor_saved>> /\ state' = TERMINAL_CSI)
       /\ (state = TERMINAL_CSI /\ c' = CH_LBRACKET)
              => (UNCHANGED <<cursor, cursor_saved>>
                    /\ state' = TERMINAL_COMMAND)]_vars

(* ESC [ n has just put the cursor back on a saved cell of the second row *)
C8_Witness ==
    /\ state = TERMINAL_NORMAL_MODE
    /\ c = CH_n
    /\ ret = 0
    /\ cursor = cursor_saved
    /\ cursor_saved = width + 2

(* C9: ESC [ 2 J and ESC [ 3 J leave every glyph a space, every attribute the
   default and the cursor 0; on a screen that is already so they change none
   of the three. *)
C9_EraseAll ==
    [][(state = TERMINAL_NUMBER_1 /\ c' = CH_J /\ n1 \in {2, 3})
          => /\ AllSpace' /\ AllDefault' /\ cursor' = 0
             /\ state' = TERMINAL_NORMAL_MODE /\ ret' = 0
             /\ (AllSpace /\ AllDefault /\ cursor = 0)
                    => UNCHANGED <<m, attributes, cursor>>]_vars

(* ESC [ 3 J has just run *)
C9_Witness ==
    /\ state = TERMINAL_NORMAL_MODE
    /\ c = CH_J
    /\ ret = 0
    /\ n1 = 3
    /\ command_index = 1
    /\ AllSpace /\ AllDefault /\ cursor = 0

(* C10: ESC [ r ; c H and ESC [ r ; c f put the cursor in column
   min(c, width - 1) of row min(r, height - 1) and change no glyph or
   attribute; r is the decimal value of its digits, kept across the ';', and
   1 when the ';' comes first; c is 1 until its first digit, which replaces
   that 1, and every later digit appends to it. *)
C10_Position ==
    [][/\ (state = TERMINAL_NUMBER_2 /\ c' \in {CH_H, CH_f})
              => /\ cursor' = (MIN(n1, height - 1) * width) + MIN(n2, width - 1)
                 /\ UNCHANGED <<m, attributes>>
                 /\ state' = TERMINAL_NORMAL_MODE
       /\ (state = TERMINAL_COMMAND /\ c' = CH_SEMI)
              => (n1' = 1 /\ n2' = 1 /\ command_index' = 0
                    /\ state' = TERMINAL_NUMBER_2)
       /\ (state = TERMINAL_COMMAND /\ c' \in Digits)
              => (n1' = c' - 48 /\ state' = TERMINAL_NUMBER_1)
       /\ (state = TERMINAL_NUMBER_1 /\ c' \in Digits /\ command_index < 4)
              => n1' = (10 * n1) + (c' - 48)
       /\ (state = TERMINAL_NUMBER_1 /\ c' = CH_SEMI)
              => (n1' = n1 /\ n2' = 1 /\ command_index' = 0
                    /\ state' = TERMINAL_NUMBER_2)
       /\ (state = TERMINAL_NUMBER_2 /\ c' \in Digits /\ command_index < 4)
              => /\ n1' = n1
                 /\ n2' = IF command_index = 0 THEN c' - 48
                                               ELSE (10 * n2) + (c' - 48)
                 /\ command_index' = command_index + 1]_vars

(* ESC [ r ; c H with r and c beyond the screen has just put the cursor in
   the last cell *)
C10_Witness ==
    /\ state = TERMINAL_NORMAL_MODE
    /\ c = CH_H
    /\ ret = 0
    /\ n1 > height
    /\ n2 > width
    /\ cursor = size - 1

(* C11: in normal mode BS and DEL move the cursor one column left, or leave
   it where it is in column 0 (never in the row above), then store a space
   at the new cursor; no other glyph and no attribute changes, nor does
   attribute, cursor_saved, cursor_on or the state. *)
C11_Backspace ==
    [][(state = TERMINAL_NORMAL_MODE /\ c' \in {BACKSPACE, DELETE})
          => /\ cursor' = IF cursor % width = 0 THEN cursor ELSE cursor - 1
             /\ m' = [m EXCEPT ![cursor'] = SPACE]
             /\ UNCHANGED <<attributes, attribute, cursor_saved, cursor_on,
                            state>>]_vars

(* DEL has just left the cursor in column 0 of the second row, after a
   glyph (BEL) in the row above *)
C11_Witness ==
    /\ state = TERMINAL_NORMAL_MODE
    /\ c = DELETE
    /\ cursor = width
    /\ m[width] = SPACE
    /\ m[width - 1] = 7

(* the cells whose attribute is not the default *)
NonDefault ==
    Cardinality({i \in DOMAIN attributes :
                    attributes[i] # vt100_default_attribute})

(* C12 as claimed: the cells whose attribute differs from the default are at
   most as many as the glyphs written since the last full-screen clear. *)
C12_AttributesBoundedByWrites == NonDefault <= written

(* C12 as amended: they are at most as many as the glyphs written plus the
   'm' commands completed since the last full-screen clear. *)
C12_AttributesBoundedByWritesAndMarks == NonDefault <= written + marked

(* one glyph was written in bold and one more cell was marked by ESC [ 1 m *)
C12_Witness ==
    /\ state = TERMINAL_NORMAL_MODE
    /\ NonDefault = 2
    /\ written = 1
    /\ marked = 1

(* C13: ESC [ ? 2 5 l clears cursor_on and ESC [ ? 2 5 h sets it; a
   private-mode sequence with another parameter, with none (the parameter is
   then 1), with a third digit or with another final byte fails and keeps
   cursor_on; no other call changes cursor_on.  The parameter is the decimal
   value of the one or two digits after the '?'. *)
C13_CursorVisibility ==
    [][/\ (state = TERMINAL_COMMAND /\ c' = CH_QUERY)
              => (n1' = 1 /\ command_index' = 0 /\ state' = TERMINAL_DECTCEM)
       /\ (state = TERMINAL_DECTCEM /\ c' \in Digits /\ command_index < 2)
              => /\ n1' = IF command_index = 0 THEN c' - 48
                                               ELSE (10 * n1) + (c' - 48)
                 /\ command_index' = command_index + 1
                 /\ state' = TERMINAL_DECTCEM
                 /\ cursor_on' = cursor_on
       /\ (state = TERMINAL_DECTCEM /\ c' \in Digits /\ command_index >= 2)
              => (ret' = -1 /\ state' = TERMINAL_NORMAL_MODE
                    /\ cursor_on' = cursor_on)
       /\ (state = TERMINAL_DECTCEM /\ c' \in {CH_l, CH_h} /\ n1 = 25)
              => (cursor_on' = (c' = CH_h) /\ ret' = 0
                    /\ state' = TERMINAL_NORMAL_MODE)
       /\ (state = TERMINAL_DECTCEM /\ c' \notin Digits
              /\ (n1 # 25 \/ c' \notin {CH_l, CH_h}))
              => (ret' = -1 /\ state' = TERMINAL_NORMAL_MODE
                    /\ cursor_on' = cursor_on)
       /\ cursor_on' # cursor_on
              => (state = TERMINAL_DECTCEM /\ c' \in {CH_l, CH_h} /\ n1 = 25
                    /\ command_index = 2)]_vars

(* ESC [ ? 2 5 l has just hidden the cursor *)
C13_Witness ==
    /\ state = TERMINAL_NORMAL_MODE
    /\ c = CH_l
    /\ ret = 0
    /\ n1 = 25
    /\ ~cursor_on

(* C14: ESC [ v m changes the current attribute by the SGR table: 0 makes
   it the default (no flag, white on black), 1, 4, 5, 7 and 8 set bold,
   under_score, blink, reverse_video and conceal, 30..37 set the foreground
   to v - 30, 40..47 the background to v - 40, any other v changes nothing.
   The result is stored in attributes[cursor]; no glyph, no other cell's
   attribute and neither cursor changes.  v is the decimal value of the one
   to four digits. *)
C14_SelectGraphicRendition ==
    [][/\ (state = TERMINAL_NUMBER_1 /\ c' = CH_m)
              => /\ n1 = 0 => attribute' =
                        [bold |-> 0, under_score |-> 0, blink |-> 0,
                         reverse_video |-> 0, conceal |-> 0,
                         foreground_color |-> 7, background_color |-> 0]
                 /\ n1 = 1 => attribute' = [attribute EXCEPT !.bold = 1]
                 /\ n1 = 4 => attribute' = [attribute EXCEPT !.under_score = 1]
                 /\ n1 = 5 => attribute' = [attribute EXCEPT !.blink = 1]
                 /\ n1 = 7 => attribute' = [attribute EXCEPT !.reverse_video = 1]
                 /\ n1 = 8 => attribute' = [attribute EXCEPT !.conceal = 1]
                 /\ n1 \in 30 .. 37 => attribute' =
                        [attribute EXCEPT !.foreground_color = n1 - 30]
                 /\ n1 \in 40 .. 47 => attribute' =
                        [attribute EXCEPT !.background_color = n1 - 40]
                 /\ n1 \notin {0, 1, 4, 5, 7, 8} \cup (30 .. 37) \cup (40 .. 47)
                        => attribute' = attribute
                 /\ attributes' = [attributes EXCEPT ![cursor] = attribute']
                 /\ UNCHANGED <<m, cursor, cursor_saved, cursor_on>>
                 /\ state' = TERMINAL_NORMAL_MODE /\ ret' = 0
       /\ (state = TERMINAL_COMMAND /\ c' \in Digits)
              => (n1' = c' - 48 /\ command_index' = 1
                    /\ state' = TERMINAL_NUMBER_1)
       /\ (state = TERMINAL_NUMBER_1 /\ c' \in Digits /\ command_index < 4)
              => (n1' = (10 * n1) + (c' - 48)
                    /\ command_index' = command_index + 1
                    /\ state' = TERMINAL_NUMBER_1)]_vars

(* ESC [ 3 4 m has just made the foreground blue on a bold, underscored
   attribute with a red background, and stored it at the cursor *)
C14_Witness ==
    /\ state = TERMINAL_NORMAL_MODE
    /\ c = CH_m
    /\ n1 = 34
    /\ attribute = [bold |-> 1, under_score |-> 1, blink |-> 0,
                    reverse_video |-> 0, conceal |-> 0,
                    foreground_color |-> 4, background_color |-> 1]
    /\ attributes[cursor] = attribute

(* a step that is a call of fifo_push, of fifo_pop *)
Pushing == fifo_call' = "fifo_push" /\ UNCHANGED terminal
Popping == fifo_call' = "fifo_pop" /\ UNCHANGED terminal

(* the bytes accepted and not yet delivered *)
Stored == Len(pushed) - Len(popped)

(* s is t cut after some element *)
IsPrefix(s, t) == Len(s) <= Len(t) /\ s = SubSeq(t, 1, Len(s))

(* C15: fifo_push on a full queue (the head is in the slot before the tail,
   around the end of the buffer too) returns 0 and changes neither head, tail
   nor the buffer; fifo_pop on an empty queue (head and tail are equal)
   returns 0 and changes neither head, tail nor the byte data points to. *)
C15_RejectedCallsChangeNothing ==
    [][/\ (Pushing /\ (head + 1 = tail \/ (head + 1 = fifo_size /\ tail = 0)))
              => (fifo_ret' = 0 /\ UNCHANGED <<head, tail, buffer>>)
       /\ (Popping /\ head = tail)
              => (fifo_ret' = 0 /\ UNCHANGED <<head, tail, data>>)]_vars

(* a push has just been refused by a queue whose head has wrapped around to
   the slot before the tail *)
C15_Witness ==
    /\ fifo_call = "fifo_push"
    /\ fifo_ret = 0
    /\ head = 0
    /\ tail = 1
    /\ Len(popped) = 1

(* C16: fifo_count is the number of accepted pushes minus the number of
   successful pops, fifo_is_empty holds exactly when that number is 0 and
   fifo_is_full exactly when it is the size the queue was created with. *)
C16_CountIsStored ==
    /\ fifo_count = Stored
    /\ fifo_is_empty <=> Stored = 0
    /\ fifo_is_full <=> Stored = fifo_size

(* C17: the bytes popped are the first of the bytes accepted, in the same
   order, and the bytes still in the buffer, read from the tail, are the
   rest; the bytes passed to vt100_update are the bytes popped, at most the
   last one excepted, so a queue that has been drained has fed the terminal
   the accepted bytes in the order of their pushes. *)
C17_FifoOrder ==
    /\ IsPrefix(popped, pushed)
    /\ \A k \in 1 .. Stored :
          buffer[(tail + (k - 1)) % fifo_size] = pushed[Len(popped) + k]
    /\ IsPrefix(fed, popped)
    /\ Len(popped) - Len(fed) <= 1
    /\ (fifo_is_empty /\ Len(fed) = Len(popped)) => fed = pushed

(* ESC [ 1 1 went through the queue, which wrapped around, and has reached
   the parser *)
C17_Witness ==
    /\ fed = <<ESCAPE, CH_LBRACKET, CH_0 + 1, CH_0 + 1>>
    /\ fed = pushed
    /\ state = TERMINAL_NUMBER_1
    /\ n1 = 11
    /\ head = 1

(* C18: ESC [ n1 E puts the cursor in column 0 of the row n1 below its own,
   and ESC [ n1 F in column 0 of the row n1 above, both counted modulo the
   height; no glyph and no attribute changes. *)
C18_NextPreviousLine ==
    [][/\ (state = TERMINAL_NUMBER_1 /\ c' = CH_E)
              => /\ cursor' = (((cursor \div width) + n1) % height) * width
                 /\ UNCHANGED <<m, attributes>>
       /\ (state = TERMINAL_NUMBER_1 /\ c' = CH_F)
              => /\ cursor' = (((cursor \div width) - n1) % height) * width
                 /\ UNCHANGED <<m, attributes>>]_vars

(* C19: ESC [ 0 J makes the cells before the cursor spaces with the default
   attribute and keeps the cells from the cursor on, and the cursor;
   ESC [ 1 J makes every cell a space with the default attribute and keeps
   the cursor; ESC [ v J with v not in 0..3 fails and changes nothing.  The
   current attribute is kept by all three. *)
C19_EraseBeforeCursor ==
    [][(state = TERMINAL_NUMBER_1 /\ c' = CH_J)
          => /\ n1 = 0 =>
                   /\ \A i \in DOMAIN m :
                          IF i < cursor
                          THEN /\ m'[i] = SPACE
                               /\ attributes'[i] = vt100_default_attribute
                          ELSE /\ m'[i] = m[i]
                               /\ attributes'[i] = attributes[i]
                   /\ cursor' = cursor /\ ret' = 0
             /\ n1 = 1 => (AllSpace' /\ AllDefault' /\ cursor' = cursor /\ ret' = 0)
             /\ n1 \notin {0, 1, 2, 3} =>
                   (ret' = -1 /\ UNCHANGED <<m, attributes, cursor>>)
             /\ UNCHANGED <<attribute, cursor_saved, cursor_on>>
             /\ state' = TERMINAL_NORMAL_MODE]_vars

(* ESC [ 0 J has just erased two glyphs before the cursor and kept the bold
   glyph under it *)
C19_Witness ==
    /\ state = TERMINAL_NORMAL_MODE
    /\ c = CH_J
    /\ ret = 0
    /\ n1 = 0
    /\ cursor = 2
    /\ m[0] = SPACE /\ m[1] = SPACE
    /\ m[2] = CH_A
    /\ attributes[2].bold = 1
    /\ attribute.bold = 1

(* C20: with the cursor in column x of row y, ESC [ n A puts it in row
   max(y - n, 0), B in row min(y + n, height - 1), both in column x; C puts
   it in column min(x + n, width - 1), D in column max(x - n, 0) and G in
   column min(n, width - 1), all three in row y; no glyph and no attribute
   changes.  n is the decimal value of the one to four digits. *)
C20_SingleAxisMoves ==
    [][/\ (state = TERMINAL_NUMBER_1 /\ c' \in {CH_A, CH_B, CH_C, CH_D, CH_G})
              => /\ cursor' % width =
                        CASE c' = CH_C -> MIN((cursor % width) + n1, width - 1)
                          [] c' = CH_D -> MAX((cursor % width) - n1, 0)
                          [] c' = CH_G -> MIN(n1, width - 1)
                          [] OTHER -> cursor % width
                 /\ cursor' \div width =
                        CASE c' = CH_A -> MAX((cursor \div width) - n1, 0)
                          [] c' = CH_B -> MIN((cursor \div width) + n1, height - 1)
                          [] OTHER -> cursor \div width
                 /\ UNCHANGED <<m, attributes>>
                 /\ state' = TERMINAL_NORMAL_MODE /\ ret' = 0
       /\ (state = TERMINAL_COMMAND /\ c' \in Digits)
              => (n1' = c' - 48 /\ state' = TERMINAL_NUMBER_1)
       /\ (state = TERMINAL_NUMBER_1 /\ c' \in Digits /\ command_index < 4)
              => (n1' = (10 * n1) + (c' - 48) /\ state' = TERMINAL_NUMBER_1)]_vars

(* ESC [ 1 B has just moved the cursor down into the last row, in the
   column before the last *)
C20_Witness ==
    /\ state = TERMINAL_NORMAL_MODE
    /\ c = CH_B
    /\ ret = 0
    /\ n1 = 1
    /\ cursor = size - 2

(***************************************************************************)
(* C21: LF or CR fed in normal mode moves the cursor to the first column   *)
(* of the next row, ((cursor / width) + 1) * width, and changes no glyph   *)
(* and no attribute; on the last row that value is size, so the whole      *)
(* screen is cleared and the cursor becomes 0.                             *)
(***************************************************************************)
C21_LineFeed ==
    [][(state = TERMINAL_NORMAL_MODE /\ c' \in {LF, CR}) =>
        IF cursor \div width = height - 1
        THEN cursor' = 0 /\ AllSpace' /\ AllDefault'
        ELSE /\ cursor' = ((cursor \div width) + 1) * width
             /\ UNCHANGED <<m, attributes>>]_vars

(* CR fed in the middle of the first row, after a bold glyph was written *)
C21_Witness ==
    /\ c = CR
    /\ cursor = width
    /\ m[1] = CH_A
    /\ attributes[1] # vt100_default_attribute

(***************************************************************************)
(* C22: TAB fed in normal mode moves the cursor to the smallest multiple   *)
(* of 8 strictly greater than it, whatever the rows are; when that is at   *)
(* least size the screen is cleared and the cursor is that value modulo    *)
(* size, otherwise nothing else changes.                                   *)
(***************************************************************************)
C22_Tab ==
    [][(state = TERMINAL_NORMAL_MODE /\ c' = TAB) =>
        IF 8 * ((cursor \div 8) + 1) >= size
        THEN /\ cursor' = (8 * ((cursor \div 8) + 1)) % size
             /\ AllSpace' /\ AllDefault'
        ELSE /\ cursor' = 8 * ((cursor \div 8) + 1)
             /\ UNCHANGED <<m, attributes, attribute, cursor_saved,
                            cursor_on, state>>]_vars

(* TAB fed on the first row, behind a glyph, lands inside the second row *)
C22_Witness ==
    /\ c = TAB
    /\ cursor = 8
    /\ cursor \div width = 1
    /\ m[1] = CH_A

(***************************************************************************)
(* C23: ESC [ a ; b m applies select graphic rendition a and then b to the *)
(* current attribute and stores the result at the cursor, so 1 ; 0 gives   *)
(* the default attribute and 0 ; 1 the default attribute made bold; a      *)
(* parameter that is left out counts as 1.                                 *)
(***************************************************************************)
C23_TwoParameters ==
    /\ [](state = TERMINAL_NUMBER_2 /\ command_index = 0 => n2 = 1)
    /\ [][/\ (state = TERMINAL_COMMAND /\ c' = CH_SEMI)
                => (n1' = 1 /\ n2' = 1 /\ state' = TERMINAL_NUMBER_2)
          /\ (state = TERMINAL_NUMBER_1 /\ c' = CH_SEMI)
                => (n1' = n1 /\ n2' = 1 /\ command_index' = 0
                      /\ state' = TERMINAL_NUMBER_2)
          /\ (state = TERMINAL_NUMBER_2 /\ c' \in Digits /\ command_index = 0)
                => (n2' = c' - 48 /\ n1' = n1)
          /\ (state = TERMINAL_NUMBER_2 /\ c' = CH_m)
                => LET plain == [bold |-> 0, under_score |-> 0, blink |-> 0,
                                 reverse_video |-> 0, conceal |-> 0,
                                 foreground_color |-> 7,
                                 background_color |-> 0]
                       sgr(a, v) ==
                           CASE v = 0 -> plain
                             [] v = 1 -> [a EXCEPT !.bold = 1]
                   IN  /\ (n1 \in {0, 1} /\ n2 \in {0, 1})
                             => attribute' = sgr(sgr(attribute, n1), n2)
                       /\ (n1 = 1 /\ n2 = 0) => attribute' = plain
                       /\ (n1 = 0 /\ n2 = 1)
                             => attribute' = [plain EXCEPT !.bold = 1]
                       /\ attributes' = [attributes EXCEPT ![cursor] = attribute']
                       /\ UNCHANGED <<m, cursor, cursor_saved, cursor_on>>
                       /\ state' = TERMINAL_NORMAL_MODE /\ ret' = 0]_vars

(* ESC [ 0 ; 1 m has just stored the default attribute made bold *)
C23_Witness ==
    /\ state = TERMINAL_NORMAL_MODE
    /\ c = CH_m
    /\ ret = 0
    /\ n1 = 0
    /\ n2 = 1
    /\ command_index = 1
    /\ attribute = [vt100_default_attribute EXCEPT !.bold = 1]
    /\ attributes[cursor] = attribute

(***************************************************************************)
(* C24: while the first parameter is being read command_index is between   *)
(* 1 and 4, so ESC [ 1 J always clears the whole screen and never only the *)
(* cells before the cursor; ESC [ J, without a digit, fails in the command *)
(* state and changes no glyph, no attribute and not the cursor.            *)
(***************************************************************************)
C24_EraseNeedsDigit ==
    /\ [](state = TERMINAL_NUMBER_1 => command_index \in 1 .. 4)
    /\ [][/\ (state = TERMINAL_COMMAND /\ c' = CH_J)
                => /\ ret' = -1
                   /\ state' = TERMINAL_NORMAL_MODE
                   /\ UNCHANGED <<m, attributes, cursor>>
          /\ (state = TERMINAL_NUMBER_1 /\ c' = CH_J /\ n1 = 1)
                => (AllSpace' /\ AllDefault' /\ ret' = 0)]_vars

(* ESC [ J has just failed, before any digit was ever fed, and the glyph
   written first is still there *)
C24_Witness ==
    /\ state = TERMINAL_NORMAL_MODE
    /\ c = CH_J
    /\ ret = -1
    /\ command_index = 0
    /\ m[0] = CH_A
    /\ cursor = 1

(***************************************************************************)
(* C25: among any 12 consecutive vt100_update calls at least one leaves    *)
(* the state TERMINAL_NORMAL_MODE: no more than 11 calls in a row leave a  *)
(* sequence open, the longest being ESC [ dddd ; dddd.                     *)
(***************************************************************************)
C25_SequencesEnd == unfinished <= 11

(* ESC [ 1111 ; 1111 has been fed: eleven calls, none back to normal mode *)
C25_Witness ==
    /\ unfinished = 11
    /\ state = TERMINAL_NUMBER_2
    /\ command_index = 4
    /\ n1 = 1111
    /\ n2 = 1111

(***************************************************************************)
(* C26: parameters left over from an earlier sequence never influence a    *)
(* later one: two terminals in normal mode that show the same glyphs,      *)
(* attributes, cursor, saved cursor, current attribute and cursor          *)
(* visibility but differ in n1, n2 or command_index agree on all of those  *)
(* and on the state after every common sequence of bytes.                  *)
(***************************************************************************)
C26_LeftoversDoNotInfluence ==
    fed = twin.fed =>
        /\ m = twin.m
        /\ attributes = twin.attributes
        /\ cursor = twin.cursor
        /\ cursor_saved = twin.cursor_saved
        /\ attribute = twin.attribute
        /\ cursor_on = twin.cursor_on
        /\ state = twin.state

(* both terminals have taken a line feed and then ESC [ s, which saves the
   cursor and reads no parameter: they still differ in what was left over *)
C26_Witness ==
    /\ fed = <<CH_s>>
    /\ twin.fed = <<CH_s>>
    /\ ret = 0
    /\ twin.ret = 0
    /\ state = TERMINAL_NORMAL_MODE
    /\ cursor = width
    /\ cursor_saved = width
    /\ twin.cursor_saved = width
    /\ <<n1, n2, command_index>> # <<twin.n1, twin.n2, twin.command_index>>

(***************************************************************************)
(* C27: from the all-space initial screen, after every byte the glyph of   *)
(* the last cell, size - 1, is a space: a glyph written there makes the    *)
(* cursor size, and the overflow clear of the same call erases it.         *)
(***************************************************************************)
C27_LastCellIsSpace == m[size - 1] = SPACE

(* a glyph has just been written in the last cell: the cursor is back at 0
   and the cell shows a space *)
C27_Witness ==
    /\ state = TERMINAL_NORMAL_MODE
    /\ c = 7
    /\ cursor = 0
    /\ m[size - 1] = SPACE

(***************************************************************************)
(* C28 as claimed: with one producer in fifo_push and one consumer in      *)
(* fifo_pop, interleaved read by read and write by write, head and tail    *)
(* stay within 0 .. size and the bytes delivered are, in order, the first  *)
(* of the bytes accepted: none is lost, delivered twice or overwritten.    *)
(***************************************************************************)
C28_ConcurrentOrder ==
    /\ head \in 0 .. fifo_size
    /\ tail \in 0 .. fifo_size
    /\ IsPrefix(popped, pushed)


====
